---- MODULE Spec2Model ----
(***************************************************************************)
(* Model of the continuous-delivery helper scripts under .github/scripts:  *)
(*   wait_for_render_deploy.py  (the deploy poller,   specification Spec)  *)
(*   run_smoke_tests.py         (the smoke tests,     SmokeSpec)           *)
(*   patch_and_deploy_render.py (patch and deploy,    PatchSpec)           *)
(*   fetch_build_logs.py        (the log fetcher,     FetchSpec)           *)
(* Each script is a single-threaded sequence of blocking HTTP calls.  A    *)
(* step of the model is one blocking call together with all the code that  *)
(* runs up to the next blocking call or the return.  The remote service is *)
(* the environment: every response is drawn from a bounded set.            *)
(***************************************************************************)
EXTENDS Integers, Sequences, FiniteSets, TLC

(***************************************************************************)
(* Bounds of the model (not program constants).                            *)
(***************************************************************************)
\* the largest --timeout tried, in seconds
MaxTimeout == 16
\* the longest a single HTTP request takes, in seconds
MaxReqTime == 3
\* the longest event list the events endpoint returns
MaxEvents == 2

(***************************************************************************)
(* Program constants.                                                      *)
(***************************************************************************)
\* time.sleep(5)
BACKOFF == 5
\* r.status_code != 200 / ev.status_code == 200
HTTP_OK == 200
\* exit status of the interpreter when main() raises
EXIT_UNCAUGHT == 1

\* Python's None (the value of last_status before any status was seen and
\* the value d.get("status") yields for a deploy without a status field)
NoneVal == "<None>"

\* status in ("success", "live")
LIVE_SUCCESS == {"success", "live"}

\* status in ("failed", "error", "cancelled", "build_failed")
FAILURE == {"failed", "error", "cancelled", "build_failed"}

\* statuses the provider reports that are in neither group
InProgress == {"queued", "build_in_progress"}

\* every value d.get("status") can yield in the model
Statuses == LIVE_SUCCESS \cup FAILURE \cup InProgress \cup {NoneVal}

\* the --timeout values tried (argparse type=int, default 600)
Timeouts == {0, BACKOFF, MaxTimeout}

\* how long one HTTP request blocks
ReqTimes == {0, MaxReqTime}

(***************************************************************************)
(* Responses of GET /services/{id}/deploys.                                *)
(*   kind "exception": requests.get raises (network error)                 *)
(*   kind "http":      a response with status code `code`; `json` tells    *)
(*                     whether r.json() parses; `arr` is the parsed list   *)
(*                     of envelopes.  An envelope's deploy is              *)
(*                     "absent" (no "deploy" key / null), "empty" ({}),    *)
(*                     or "object" (a non-empty object) whose "status"     *)
(*                     is `status` (NoneVal when the field is missing).    *)
(***************************************************************************)
Envelopes ==
    {[deploy |-> "absent", status |-> NoneVal],
     [deploy |-> "empty", status |-> NoneVal]}
    \cup {[deploy |-> "object", status |-> s] : s \in Statuses}

DeployResponses ==
    {[kind |-> "exception", code |-> 0, json |-> FALSE, arr |-> <<>>]}
    \cup {[kind |-> "http", code |-> 500, json |-> FALSE, arr |-> <<>>]}
    \cup {[kind |-> "http", code |-> HTTP_OK, json |-> FALSE, arr |-> <<>>]}
    \cup {[kind |-> "http", code |-> HTTP_OK, json |-> TRUE, arr |-> <<>>]}
    \cup {[kind |-> "http", code |-> HTTP_OK, json |-> TRUE, arr |-> <<e>>] :
             e \in Envelopes}

\* Result of get_latest_deploy: it raises, returns None / {} (falsy), or
\* returns a deploy object.
Raised == [raised |-> TRUE, truthy |-> FALSE, status |-> NoneVal]
NoDeploy == [raised |-> FALSE, truthy |-> FALSE, status |-> NoneVal]
Deploy(s) == [raised |-> FALSE, truthy |-> TRUE, status |-> s]

get_latest_deploy(r) ==
    IF r.kind = "exception" THEN Raised
    ELSE IF r.code # HTTP_OK THEN NoDeploy
    ELSE IF ~r.json THEN Raised
    ELSE IF r.arr = <<>> THEN NoDeploy
    ELSE IF r.arr[1].deploy = "object" THEN Deploy(r.arr[1].status)
    ELSE NoDeploy

(***************************************************************************)
(* Responses of GET /services/{id}/events.                                 *)
(*   shape "list": the body is a JSON list of `items`; "dict": a non-empty *)
(*   JSON object.  An item is well formed (an object whose "event" is an   *)
(*   object with optional type / details) or not (e.g. a string).          *)
(***************************************************************************)
EventItems ==
    {[wellformed |-> FALSE, type |-> NoneVal, buildStatus |-> NoneVal,
      buildId |-> NoneVal]}
    \cup [wellformed : {TRUE}, type : {"build_ended", "deploy_ended"},
          buildStatus : {"succeeded", "failed"},
          buildId : {"bld-1", "bld-2", NoneVal}]

RECURSIVE SeqsUpTo(_, _)
SeqsUpTo(S, n) ==
    IF n = 0 THEN {<<>>}
    ELSE LET shorter == SeqsUpTo(S, n - 1) IN
         shorter \cup {Append(q, x) : q \in {t \in shorter : Len(t) = n - 1},
                                      x \in S}

EventResponses ==
    {[kind |-> "exception", code |-> 0, json |-> FALSE, shape |-> "list",
      items |-> <<>>]}
    \cup {[kind |-> "http", code |-> 503, json |-> FALSE, shape |-> "list",
           items |-> <<>>]}
    \cup {[kind |-> "http", code |-> HTTP_OK, json |-> FALSE,
           shape |-> "list", items |-> <<>>]}
    \cup {[kind |-> "http", code |-> HTTP_OK, json |-> TRUE,
           shape |-> "dict", items |-> <<>>]}
    \cup {[kind |-> "http", code |-> HTTP_OK, json |-> TRUE,
           shape |-> "list", items |-> q] : q \in SeqsUpTo(EventItems, MaxEvents)}

\* evt.get("type") == "build_ended" and
\* evt.get("details", {}).get("buildStatus") == "succeeded"
IsBuildSuccess(item) ==
    item.type = "build_ended" /\ item.buildStatus = "succeeded"

\* for item in events: ... print("buildId:", ...); break
\* Result: what the scan prints ("<nothing>" when no event matches) or
\* "<raise>" when item.get fails on an ill-formed item before any match.
RECURSIVE ScanEvents(_, _)
ScanEvents(items, i) ==
    IF i > Len(items) THEN "<nothing>"
    ELSE IF ~items[i].wellformed THEN "<raise>"
    ELSE IF IsBuildSuccess(items[i]) THEN items[i].buildId
    ELSE ScanEvents(items, i + 1)

\* The live branch after requests.get returned: "<raise>" when the body
\* makes the code raise, else what is printed after "buildId:".
LiveEventsResult(r) ==
    IF r.kind = "exception" THEN "<raise>"
    ELSE IF r.code # HTTP_OK THEN "<nothing>"
    ELSE IF ~r.json THEN "<raise>"
    ELSE IF r.shape = "dict" THEN "<raise>"
    ELSE ScanEvents(r.items, 1)

\* The failure branch: print(json.dumps(ev.json()[:20], indent=2)[:4000])
FailedEventsResult(r) ==
    IF r.kind = "exception" THEN "<raise>"
    ELSE IF r.code # HTTP_OK THEN "<nothing>"
    ELSE IF ~r.json THEN "<raise>"
    ELSE IF r.shape = "dict" THEN "<raise>"
    ELSE "<dump>"

(***************************************************************************)
(* State of one run of wait_for_render_deploy.py main().                   *)
(***************************************************************************)
VARIABLES
    pc,           \* where main() is: "loop" (about to evaluate the while
                  \* condition), "fetch" (about to call get_latest_deploy),
                  \* "events_live" / "events_failed" (about to request the
                  \* events), "done" (returned), "crashed" (raised)
    timeout,      \* args.timeout
    elapsed,      \* time.time() - start
    last_status,  \* last_status
    log,          \* the values printed by print("Deploy status:", status)
    printed,      \* what the events branch printed ("<nothing>" if nothing)
    exit_code,    \* {} while running, {c} once the process exited with c
    polls,        \* history: per get_latest_deploy call that returned, the
                  \* status seen or "<nodeploy>"
    nFetch,       \* history: number of deploy-list requests sent
    nEvents,      \* history: number of events requests sent
    nSleeps,      \* history: number of time.sleep(5) calls
    slept,        \* history: seconds asked of time.sleep in total
    lastIter,     \* history: seconds the last loop iteration took
    smoke_pc,     \* run_smoke_tests.py: "health", "validate", "done"
    health_code,  \* status code of GET /health, {} before the response
    validate_code,\* status code of POST validate, {} before the response
    smoke_exit,   \* {} while running, {c} once the process exited with c
    nValidate,    \* history: number of validate requests sent
    patch_pc,     \* patch_and_deploy_render.py: "patch", "deploy", "done",
                  \* "crashed"
    patch_code,   \* r.status_code of the PATCH, {} before the response
    deploy_code,  \* r2.status_code of the POST, {} before the response
    patch_exit,   \* {} while running, {c} once the process exited with c
    patch_reqs,   \* history: the requests sent, in order
    fb_pc,        \* fetch_build_logs.py: "events", "first", "second",
                  \* "done", "crashed"
    fb_events,    \* events (the parsed body of the events response)
    build_id,     \* build_id
    fb_exit,      \* {} while running, {c} once the process exited with c
    fb_reqs,      \* history: the URLs requested, in order
    fb_file       \* history: the contents written to args.out, in order

pollerVars == <<pc, timeout, elapsed, last_status, log, printed, exit_code,
                polls, nFetch, nEvents, nSleeps, slept, lastIter>>
smokeVars == <<smoke_pc, health_code, validate_code, smoke_exit, nValidate>>
patchVars == <<patch_pc, patch_code, deploy_code, patch_exit, patch_reqs>>
fetchVars == <<fb_pc, fb_events, build_id, fb_exit, fb_reqs, fb_file>>
vars == <<pollerVars, smokeVars, patchVars, fetchVars>>

\* the state of the scripts other than the poller / the smoke tests /
\* patch-and-deploy / the log fetcher
notPoller == <<smokeVars, patchVars, fetchVars>>
notSmoke == <<pollerVars, patchVars, fetchVars>>
notPatch == <<pollerVars, smokeVars, fetchVars>>
notFetch == <<pollerVars, smokeVars, patchVars>>

\* return 0 / return 2 / return 3 of the poller
EXIT_OK == 0
EXIT_FAILED == 2
EXIT_TIMEOUT == 3

\* start = time.time(); last_status = None
PollerInit ==
    /\ pc = "loop"
    /\ timeout \in Timeouts
    /\ elapsed = 0
    /\ last_status = NoneVal
    /\ log = <<>>
    /\ printed = "<nothing>"
    /\ exit_code = {}
    /\ polls = <<>>
    /\ nFetch = 0
    /\ nEvents = 0
    /\ nSleeps = 0
    /\ slept = 0
    /\ lastIter = 0

\* the loop condition written with <= instead of <
LoopCondInclusive(e, t) == e <= t

\* the loop written as a do-while: the first pass runs before the check
LoopCondFirstPass(e, t) == e < t \/ e = 0

\* the loop allows one more backoff interval after the deadline
LoopCondGrace(e, t) == e < t + BACKOFF

\* while time.time() - start < args.timeout
LoopCond(e, t) == e < t

\* the while condition holds: enter the body
LoopEnter ==
    /\ pc = "loop"
    /\ LoopCond(elapsed, timeout)
    /\ pc' = "fetch"
    /\ UNCHANGED notPoller
    /\ UNCHANGED <<timeout, elapsed, last_status, log, printed, exit_code,
                   polls, nFetch, nEvents, nSleeps, slept, lastIter>>

\* the while condition fails: print("Timeout ..."); return 3
LoopTimeout ==
    /\ pc = "loop"
    /\ ~LoopCond(elapsed, timeout)
    /\ pc' = "done"
    /\ exit_code' = {EXIT_TIMEOUT}
    /\ UNCHANGED notPoller
    /\ UNCHANGED <<timeout, elapsed, last_status, log, printed, polls,
                   nFetch, nEvents, nSleeps, slept, lastIter>>

\* get_latest_deploy raises (network error, unparsable body): nothing in
\* main() catches it
PollRaises ==
    /\ pc = "fetch"
    /\ \E r \in DeployResponses, dur \in ReqTimes :
          /\ get_latest_deploy(r).raised
          /\ elapsed' = elapsed + dur
          /\ lastIter' = dur
    /\ nFetch' = nFetch + 1
    /\ pc' = "crashed"
    /\ exit_code' = {EXIT_UNCAUGHT}
    /\ UNCHANGED notPoller
    /\ UNCHANGED <<timeout, last_status, log, printed, polls, nEvents,
                   nSleeps, slept>>

\* a missing deploy treated as a failed deploy: return 2 without sleeping
PollNoDeployFatal ==
    /\ pc = "fetch"
    /\ \E r \in DeployResponses, dur \in ReqTimes :
          LET d == get_latest_deploy(r) IN
          /\ ~d.raised /\ ~d.truthy
          /\ elapsed' = elapsed + dur
          /\ lastIter' = dur
    /\ nFetch' = nFetch + 1
    /\ polls' = Append(polls, "<nodeploy>")
    /\ pc' = "done"
    /\ exit_code' = {EXIT_FAILED}
    /\ UNCHANGED notPoller
    /\ UNCHANGED <<timeout, last_status, log, printed, nEvents, nSleeps,
                   slept>>

\* a missing deploy backs off twice as long as an in-progress one
PollNoDeployLongSleep ==
    /\ pc = "fetch"
    /\ \E r \in DeployResponses, dur \in ReqTimes :
          LET d == get_latest_deploy(r) IN
          /\ ~d.raised /\ ~d.truthy
          /\ elapsed' = elapsed + dur + 2 * BACKOFF
          /\ lastIter' = dur + 2 * BACKOFF
    /\ nFetch' = nFetch + 1
    /\ nSleeps' = nSleeps + 1
    /\ slept' = slept + 2 * BACKOFF
    /\ polls' = Append(polls, "<nodeploy>")
    /\ pc' = "loop"
    /\ UNCHANGED notPoller
    /\ UNCHANGED <<timeout, last_status, log, printed, exit_code, nEvents>>

\* a missing deploy resets the last observed status
PollNoDeployResets ==
    /\ pc = "fetch"
    /\ \E r \in DeployResponses, dur \in ReqTimes :
          LET d == get_latest_deploy(r) IN
          /\ ~d.raised /\ ~d.truthy
          /\ elapsed' = elapsed + dur + BACKOFF
          /\ lastIter' = dur + BACKOFF
    /\ nFetch' = nFetch + 1
    /\ nSleeps' = nSleeps + 1
    /\ slept' = slept + BACKOFF
    /\ polls' = Append(polls, "<nodeploy>")
    /\ last_status' = NoneVal
    /\ pc' = "loop"
    /\ UNCHANGED notPoller
    /\ UNCHANGED <<timeout, log, printed, exit_code, nEvents>>

\* if not d: print("No deploys yet..."); time.sleep(5); continue
PollNoDeploy ==
    /\ pc = "fetch"
    /\ \E r \in DeployResponses, dur \in ReqTimes :
          LET d == get_latest_deploy(r) IN
          /\ ~d.raised /\ ~d.truthy
          /\ elapsed' = elapsed + dur + BACKOFF
          /\ lastIter' = dur + BACKOFF
    /\ nFetch' = nFetch + 1
    /\ nSleeps' = nSleeps + 1
    /\ slept' = slept + BACKOFF
    /\ polls' = Append(polls, "<nodeploy>")
    /\ pc' = "loop"
    /\ UNCHANGED notPoller
    /\ UNCHANGED <<timeout, last_status, log, printed, exit_code, nEvents>>

\* every status that is not a failure counts as live
ClassifyLoose(s) ==
    IF s \in FAILURE THEN "failed"
    ELSE IF s = NoneVal THEN "progress"
    ELSE "live"

\* a deploy without a status counts as failed
ClassifyMissingFailed(s) ==
    IF s \in LIVE_SUCCESS THEN "live"
    ELSE IF s \in FAILURE \/ s = NoneVal THEN "failed"
    ELSE "progress"

\* "cancelled" is missing from the failure tuple
ClassifyCancelledIgnored(s) ==
    IF s \in LIVE_SUCCESS THEN "live"
    ELSE IF s \in FAILURE \ {"cancelled"} THEN "failed"
    ELSE "progress"

\* the classification of a status by the two `status in (...)` tests
Classify(s) ==
    IF s \in LIVE_SUCCESS THEN "live"
    ELSE IF s \in FAILURE THEN "failed"
    ELSE "progress"

\* if status != last_status: print("Deploy status:", status)
LogStatus(lg, last, s) == IF s # last THEN Append(lg, s) ELSE lg

\* a deploy with status s was found by a request that took dur seconds:
\* log the status change, then classify
SeenStatus(s, dur) ==
    /\ log' = LogStatus(log, last_status, s)
    /\ last_status' = s
    /\ polls' = Append(polls, s)
    /\ nFetch' = nFetch + 1
    /\ IF Classify(s) = "progress"
       THEN /\ elapsed' = elapsed + dur + BACKOFF
            /\ lastIter' = dur + BACKOFF
            /\ nSleeps' = nSleeps + 1
            /\ slept' = slept + BACKOFF
            /\ pc' = "loop"
       ELSE /\ elapsed' = elapsed + dur
            /\ lastIter' = dur
            /\ nSleeps' = nSleeps
            /\ slept' = slept
            /\ pc' = IF Classify(s) = "live" THEN "events_live"
                     ELSE "events_failed"
    /\ UNCHANGED notPoller
    /\ UNCHANGED <<timeout, printed, exit_code, nEvents>>

\* the responses for which get_latest_deploy returns a deploy of class c
DeploysOfClass(c) ==
    {r \in DeployResponses :
        LET d == get_latest_deploy(r) IN
        ~d.raised /\ d.truthy /\ Classify(d.status) = c}

\* neither group: time.sleep(5) and the next iteration
PollInProgress ==
    /\ pc = "fetch"
    /\ \E r \in DeploysOfClass("progress"), dur \in ReqTimes :
          SeenStatus(get_latest_deploy(r).status, dur)

\* status in ("success", "live"): print("Deploy is live.")
PollLive ==
    /\ pc = "fetch"
    /\ \E r \in DeploysOfClass("live"), dur \in ReqTimes :
          SeenStatus(get_latest_deploy(r).status, dur)

\* status in ("failed", ...): print("Deploy failed with status:", status)
PollFailed ==
    /\ pc = "fetch"
    /\ \E r \in DeploysOfClass("failed"), dur \in ReqTimes :
          SeenStatus(get_latest_deploy(r).status, dur)

\* an events request that took dur seconds ended with `result`; the code
\* after it runs up to `return code`
EventsDone(result, dur, code) ==
    /\ elapsed' = elapsed + dur
    /\ nEvents' = nEvents + 1
    /\ IF result = "<raise>"
       THEN /\ pc' = "crashed"
            /\ exit_code' = {EXIT_UNCAUGHT}
            /\ printed' = printed
       ELSE /\ pc' = "done"
            /\ exit_code' = {code}
            /\ printed' = result
    /\ UNCHANGED notPoller
    /\ UNCHANGED <<timeout, last_status, log, polls, nFetch, nSleeps,
                   slept, lastIter>>

\* the live branch: events request, build-id scan, return 0
EventsLive ==
    /\ pc = "events_live"
    /\ \E r \in EventResponses, dur \in ReqTimes :
          EventsDone(LiveEventsResult(r), dur, EXIT_OK)

\* the failure branch: events request, dump, return 2
EventsFailed ==
    /\ pc = "events_failed"
    /\ \E r \in EventResponses, dur \in ReqTimes :
          EventsDone(FailedEventsResult(r), dur, EXIT_FAILED)

(***************************************************************************)
(* run_smoke_tests.py main().                                              *)
(***************************************************************************)
\* the status codes a final HTTP response can carry
StatusCodes == 200..599

\* a request either raises (kind "exception") or returns a status code
SmokeResponses ==
    {[kind |-> "exception", code |-> 0]}
    \cup {[kind |-> "http", code |-> c] : c \in StatusCodes}

\* return 0 / 2 / 3 / 4 / 5 of the smoke tests
SMOKE_OK == 0
SMOKE_HEALTH_FAILED == 2
SMOKE_HEALTH_ERROR == 3
SMOKE_VALIDATE_FAILED == 4
SMOKE_VALIDATE_ERROR == 5
\* if r.status_code >= 400
VALIDATE_FAIL_FROM == 400

SmokeInit ==
    /\ smoke_pc = "health"
    /\ health_code = {}
    /\ validate_code = {}
    /\ smoke_exit = {}
    /\ nValidate = 0

\* requests.get(health) raises: except Exception -> return 3
HealthRaises ==
    /\ smoke_pc = "health"
    /\ \E r \in SmokeResponses : r.kind = "exception"
    /\ smoke_pc' = "done"
    /\ smoke_exit' = {SMOKE_HEALTH_ERROR}
    /\ UNCHANGED notSmoke
    /\ UNCHANGED <<health_code, validate_code, nValidate>>

\* if r.status_code != 200: return 2
HealthNot200 ==
    /\ smoke_pc = "health"
    /\ \E r \in SmokeResponses :
          /\ r.kind = "http" /\ r.code # HTTP_OK
          /\ health_code' = {r.code}
    /\ smoke_pc' = "done"
    /\ smoke_exit' = {SMOKE_HEALTH_FAILED}
    /\ UNCHANGED notSmoke
    /\ UNCHANGED <<validate_code, nValidate>>

\* the health check returned 200: go on to the validate request
HealthOk ==
    /\ smoke_pc = "health"
    /\ \E r \in SmokeResponses :
          /\ r.kind = "http" /\ r.code = HTTP_OK
          /\ health_code' = {r.code}
    /\ smoke_pc' = "validate"
    /\ UNCHANGED notSmoke
    /\ UNCHANGED <<validate_code, smoke_exit, nValidate>>

\* requests.post(val) raises: except Exception -> return 5
ValidateRaises ==
    /\ smoke_pc = "validate"
    /\ \E r \in SmokeResponses : r.kind = "exception"
    /\ nValidate' = nValidate + 1
    /\ smoke_pc' = "done"
    /\ smoke_exit' = {SMOKE_VALIDATE_ERROR}
    /\ UNCHANGED notSmoke
    /\ UNCHANGED <<health_code, validate_code>>

\* if r.status_code >= 400
ValidateRejected(c) == c >= VALIDATE_FAIL_FROM

\* if r.status_code >= 400: return 4
ValidateFails ==
    /\ smoke_pc = "validate"
    /\ \E r \in SmokeResponses :
          /\ r.kind = "http" /\ ValidateRejected(r.code)
          /\ validate_code' = {r.code}
    /\ nValidate' = nValidate + 1
    /\ smoke_pc' = "done"
    /\ smoke_exit' = {SMOKE_VALIDATE_FAILED}
    /\ UNCHANGED notSmoke
    /\ UNCHANGED <<health_code>>

\* print("Smoke tests passed"); return 0
ValidatePasses ==
    /\ smoke_pc = "validate"
    /\ \E r \in SmokeResponses :
          /\ r.kind = "http" /\ ~ValidateRejected(r.code)
          /\ validate_code' = {r.code}
    /\ nValidate' = nValidate + 1
    /\ smoke_pc' = "done"
    /\ smoke_exit' = {SMOKE_OK}
    /\ UNCHANGED notSmoke
    /\ UNCHANGED <<health_code>>

SmokeNext ==
    \/ HealthRaises
    \/ HealthNot200
    \/ HealthOk
    \/ ValidateRaises
    \/ ValidateFails
    \/ ValidatePasses

(***************************************************************************)
(* patch_and_deploy_render.py main().                                      *)
(***************************************************************************)
\* return 0 / 2 / 3 of patch-and-deploy
PATCH_OK == 0
PATCH_FAILED == 2
DEPLOY_FAILED == 3

\* a request either raises (kind "exception") or returns a status code;
\* the body is printed as JSON or, when it does not parse, as text
PatchResponses ==
    {[kind |-> "exception", code |-> 0]}
    \cup {[kind |-> "http", code |-> c] : c \in StatusCodes}

PatchInit ==
    /\ patch_pc = "patch"
    /\ patch_code = {}
    /\ deploy_code = {}
    /\ patch_exit = {}
    /\ patch_reqs = <<>>

\* the PATCH answered with any 2xx status counts as success
PatchAcceptedAny2xx(c) == c \in 200..299

\* r.status_code not in (200, 202)
PatchAccepted(c) == c \in {200, 202}

\* r2.status_code not in (200, 201)
DeployAccepted(c) == c \in {200, 201}

\* requests.patch raises: nothing catches it
PatchRaises ==
    /\ patch_pc = "patch"
    /\ \E r \in PatchResponses : r.kind = "exception"
    /\ patch_reqs' = Append(patch_reqs, "PATCH")
    /\ patch_pc' = "crashed"
    /\ patch_exit' = {EXIT_UNCAUGHT}
    /\ UNCHANGED notPatch
    /\ UNCHANGED <<patch_code, deploy_code>>

\* if r.status_code not in (200, 202): return 2
PatchRejected ==
    /\ patch_pc = "patch"
    /\ \E r \in PatchResponses :
          /\ r.kind = "http" /\ ~PatchAccepted(r.code)
          /\ patch_code' = {r.code}
    /\ patch_reqs' = Append(patch_reqs, "PATCH")
    /\ patch_pc' = "done"
    /\ patch_exit' = {PATCH_FAILED}
    /\ UNCHANGED notPatch
    /\ UNCHANGED <<deploy_code>>

\* the PATCH returned 200 or 202: go on to trigger the deploy
PatchDone ==
    /\ patch_pc = "patch"
    /\ \E r \in PatchResponses :
          /\ r.kind = "http" /\ PatchAccepted(r.code)
          /\ patch_code' = {r.code}
    /\ patch_reqs' = Append(patch_reqs, "PATCH")
    /\ patch_pc' = "deploy"
    /\ UNCHANGED notPatch
    /\ UNCHANGED <<deploy_code, patch_exit>>

\* requests.post raises: nothing catches it
DeployRaises ==
    /\ patch_pc = "deploy"
    /\ \E r \in PatchResponses : r.kind = "exception"
    /\ patch_reqs' = Append(patch_reqs, "POST")
    /\ patch_pc' = "crashed"
    /\ patch_exit' = {EXIT_UNCAUGHT}
    /\ UNCHANGED notPatch
    /\ UNCHANGED <<patch_code, deploy_code>>

\* if r2.status_code not in (200, 201): return 3
DeployRejected ==
    /\ patch_pc = "deploy"
    /\ \E r \in PatchResponses :
          /\ r.kind = "http" /\ ~DeployAccepted(r.code)
          /\ deploy_code' = {r.code}
    /\ patch_reqs' = Append(patch_reqs, "POST")
    /\ patch_pc' = "done"
    /\ patch_exit' = {DEPLOY_FAILED}
    /\ UNCHANGED notPatch
    /\ UNCHANGED <<patch_code>>

\* print("Deploy triggered successfully"); return 0
DeployTriggered ==
    /\ patch_pc = "deploy"
    /\ \E r \in PatchResponses :
          /\ r.kind = "http" /\ DeployAccepted(r.code)
          /\ deploy_code' = {r.code}
    /\ patch_reqs' = Append(patch_reqs, "POST")
    /\ patch_pc' = "done"
    /\ patch_exit' = {PATCH_OK}
    /\ UNCHANGED notPatch
    /\ UNCHANGED <<patch_code>>

PatchNext ==
    \/ PatchRaises
    \/ PatchRejected
    \/ PatchDone
    \/ DeployRaises
    \/ DeployRejected
    \/ DeployTriggered

(***************************************************************************)
(* fetch_build_logs.py main().                                             *)
(* The events body is a list: `items` are its first events, written out,   *)
(* followed by `extra` further events that are well formed and are not     *)
(* build_ended events.                                                     *)
(***************************************************************************)
\* return 0 / 2 of the log fetcher
FETCH_OK == 0
FETCH_EVENTS_FAILED == 2
\* events[:50]
EVENTS_CAP == 50

\* how many events follow the written-out ones
ExtraEvents == {0, EVENTS_CAP - 1, EVENTS_CAP + 10}

NoEvents == [items |-> <<>>, extra |-> 0]

FetchEventResponses ==
    {[kind |-> "exception", code |-> 0, json |-> FALSE, shape |-> "list",
      items |-> <<>>, extra |-> 0]}
    \cup {[kind |-> "http", code |-> 503, json |-> FALSE, shape |-> "list",
           items |-> <<>>, extra |-> 0]}
    \cup {[kind |-> "http", code |-> HTTP_OK, json |-> FALSE,
           shape |-> "list", items |-> <<>>, extra |-> 0]}
    \cup {[kind |-> "http", code |-> HTTP_OK, json |-> TRUE,
           shape |-> "dict", items |-> <<>>, extra |-> 0]}
    \cup {[kind |-> "http", code |-> HTTP_OK, json |-> TRUE,
           shape |-> "list", items |-> q, extra |-> x] :
             q \in SeqsUpTo(EventItems, MaxEvents), x \in ExtraEvents}

\* responses of the two log endpoints
LogResponses ==
    {[kind |-> "exception", code |-> 0, body |-> ""]}
    \cup [kind : {"http"}, code : {HTTP_OK, 404}, body : {"log-a", "log-b"}]

\* the candidates list, in order
Candidates == <<"/builds/{id}/logs", "/services/{id}/builds/{id}/logs">>

\* for item in events: ... build_id = ...get("buildId"); break
\* Result: the build id (NoneVal when no event matches or the match has
\* none) or "<raise>" when item.get fails before any match.
\* the scan goes on past a matching event that carries no build id
RECURSIVE FindBuildIdSkipsEmpty(_, _)
FindBuildIdSkipsEmpty(items, i) ==
    IF i > Len(items) THEN NoneVal
    ELSE IF ~items[i].wellformed THEN "<raise>"
    ELSE IF IsBuildSuccess(items[i]) /\ items[i].buildId # NoneVal
         THEN items[i].buildId
    ELSE FindBuildIdSkipsEmpty(items, i + 1)

RECURSIVE FindBuildId(_, _)
FindBuildId(items, i) ==
    IF i > Len(items) THEN NoneVal
    ELSE IF ~items[i].wellformed THEN "<raise>"
    ELSE IF IsBuildSuccess(items[i]) THEN items[i].buildId
    ELSE FindBuildId(items, i + 1)

\* json.dumps(events) without the [:50] slice
EventsDumpAll(ev) ==
    [kind |-> "events", body |-> "", items |-> ev.items, extra |-> ev.extra]

\* json.dumps(events[:50], indent=2)
EventsDump(ev) ==
    LET n == Len(ev.items) IN
    [kind |-> "events", body |-> "",
     items |-> IF n > EVENTS_CAP THEN SubSeq(ev.items, 1, EVENTS_CAP)
               ELSE ev.items,
     extra |-> IF n >= EVENTS_CAP THEN 0
               ELSE IF ev.extra > EVENTS_CAP - n THEN EVENTS_CAP - n
               ELSE ev.extra]

\* fh.write(r.content)
LogsDump(r) == [kind |-> "logs", body |-> r.body, items |-> <<>>, extra |-> 0]

FetchInit ==
    /\ fb_pc = "events"
    /\ fb_events = NoEvents
    /\ build_id = NoneVal
    /\ fb_exit = {}
    /\ fb_reqs = <<>>
    /\ fb_file = <<>>

\* the record of a request in fb_reqs: the URL and what came back
\* (code 0 when the request raised)
Sent(url, r) ==
    [url |-> url, code |-> r.code,
     body |-> IF r.kind = "http" /\ "body" \in DOMAIN r THEN r.body ELSE ""]

EVENTS_URL == "/services/{id}/events"

\* the events request raises, or its body is not JSON, or the body makes
\* the scan raise: nothing catches it
FetchEventsRaises ==
    /\ fb_pc = "events"
    /\ \E r \in FetchEventResponses :
          /\ \/ r.kind = "exception"
             \/ r.kind = "http" /\ r.code = HTTP_OK /\ ~r.json
             \/ /\ r.kind = "http" /\ r.code = HTTP_OK /\ r.json
                /\ r.shape = "dict"
             \/ /\ r.kind = "http" /\ r.code = HTTP_OK /\ r.json
                /\ r.shape = "list"
                /\ FindBuildId(r.items, 1) = "<raise>"
          /\ fb_reqs' = Append(fb_reqs, Sent(EVENTS_URL, r))
    /\ fb_pc' = "crashed"
    /\ fb_exit' = {EXIT_UNCAUGHT}
    /\ UNCHANGED notFetch
    /\ UNCHANGED <<fb_events, build_id, fb_file>>

\* if er.status_code != 200: return 2
FetchEventsFailed ==
    /\ fb_pc = "events"
    /\ \E r \in FetchEventResponses :
          /\ r.kind = "http" /\ r.code # HTTP_OK
          /\ fb_reqs' = Append(fb_reqs, Sent(EVENTS_URL, r))
    /\ fb_pc' = "done"
    /\ fb_exit' = {FETCH_EVENTS_FAILED}
    /\ UNCHANGED notFetch
    /\ UNCHANGED <<fb_events, build_id, fb_file>>

\* the events whose scan ends without raising
ScannedEvents ==
    {r \in FetchEventResponses :
        /\ r.kind = "http" /\ r.code = HTTP_OK /\ r.json /\ r.shape = "list"
        /\ FindBuildId(r.items, 1) # "<raise>"}

\* if not build_id: write events[:50]; return 0
FetchNoBuild ==
    /\ fb_pc = "events"
    /\ \E r \in ScannedEvents :
          /\ FindBuildId(r.items, 1) = NoneVal
          /\ fb_events' = [items |-> r.items, extra |-> r.extra]
          /\ build_id' = NoneVal
          /\ fb_file' = Append(fb_file,
                               EventsDump([items |-> r.items, extra |-> r.extra]))
          /\ fb_reqs' = Append(fb_reqs, Sent(EVENTS_URL, r))
    /\ fb_pc' = "done"
    /\ fb_exit' = {FETCH_OK}
    /\ UNCHANGED notFetch

\* print("Found build id:", build_id)
FetchBuildFound ==
    /\ fb_pc = "events"
    /\ \E r \in ScannedEvents :
          /\ FindBuildId(r.items, 1) # NoneVal
          /\ fb_events' = [items |-> r.items, extra |-> r.extra]
          /\ build_id' = FindBuildId(r.items, 1)
          /\ fb_reqs' = Append(fb_reqs, Sent(EVENTS_URL, r))
    /\ fb_pc' = "first"
    /\ UNCHANGED notFetch
    /\ UNCHANGED <<fb_exit, fb_file>>

\* the position in candidates of the request about to be sent
CandidateAt(at) == IF at = "first" THEN 1 ELSE 2

\* requests.get(url) of a candidate raises: nothing catches it
FetchLogsRaises ==
    /\ fb_pc \in {"first", "second"}
    /\ \E r \in LogResponses :
          /\ r.kind = "exception"
          /\ fb_reqs' = Append(fb_reqs, Sent(Candidates[CandidateAt(fb_pc)], r))
    /\ fb_pc' = "crashed"
    /\ fb_exit' = {EXIT_UNCAUGHT}
    /\ UNCHANGED notFetch
    /\ UNCHANGED <<fb_events, build_id, fb_file>>

\* if r.status_code == 200: write r.content; return 0
FetchLogsSaved ==
    /\ fb_pc \in {"first", "second"}
    /\ \E r \in LogResponses :
          /\ r.kind = "http" /\ r.code = HTTP_OK
          /\ fb_file' = Append(fb_file, LogsDump(r))
          /\ fb_reqs' = Append(fb_reqs, Sent(Candidates[CandidateAt(fb_pc)], r))
    /\ fb_pc' = "done"
    /\ fb_exit' = {FETCH_OK}
    /\ UNCHANGED notFetch
    /\ UNCHANGED <<fb_events, build_id>>

\* the first candidate did not return 200: try the second one
FetchFirstMissing ==
    /\ fb_pc = "first"
    /\ \E r \in LogResponses :
          /\ r.kind = "http" /\ r.code # HTTP_OK
          /\ fb_reqs' = Append(fb_reqs, Sent(Candidates[1], r))
    /\ fb_pc' = "second"
    /\ UNCHANGED notFetch
    /\ UNCHANGED <<fb_events, build_id, fb_exit, fb_file>>

\* no candidate returned 200: write events[:50]; return 0
FetchFallback ==
    /\ fb_pc = "second"
    /\ \E r \in LogResponses :
          /\ r.kind = "http" /\ r.code # HTTP_OK
          /\ fb_reqs' = Append(fb_reqs, Sent(Candidates[2], r))
    /\ fb_file' = Append(fb_file, EventsDump(fb_events))
    /\ fb_pc' = "done"
    /\ fb_exit' = {FETCH_OK}
    /\ UNCHANGED notFetch
    /\ UNCHANGED <<fb_events, build_id>>

FetchNext ==
    \/ FetchEventsRaises
    \/ FetchEventsFailed
    \/ FetchNoBuild
    \/ FetchBuildFound
    \/ FetchLogsRaises
    \/ FetchLogsSaved
    \/ FetchFirstMissing
    \/ FetchFallback

(***************************************************************************)
(* Specifications: one per script.  While one script runs, the state of    *)
(* the others stays at its initial value.                                  *)
(***************************************************************************)
Init == PollerInit /\ SmokeInit /\ PatchInit /\ FetchInit

Next ==
    \/ LoopEnter
    \/ LoopTimeout
    \/ PollRaises
    \/ PollNoDeploy
    \/ PollInProgress
    \/ PollLive
    \/ PollFailed
    \/ EventsLive
    \/ EventsFailed

Spec == Init /\ [][Next]_vars

\* every request returns or raises within its timeout and every sleep
\* ends, so a step that is possible is eventually taken
FairSpec == Spec /\ WF_vars(Next)

\* the poller's state while only another script runs
PollerIdle == PollerInit /\ timeout = 0

SmokeSpecInit == PollerIdle /\ SmokeInit /\ PatchInit /\ FetchInit

SmokeSpec == SmokeSpecInit /\ [][SmokeNext]_vars

PatchSpec == SmokeSpecInit /\ [][PatchNext]_vars

FetchSpec == SmokeSpecInit /\ [][FetchNext]_vars

(***************************************************************************)
(* Properties of the deploy poller (checked under Spec).                   *)
(***************************************************************************)
\* the status groups as the documentation states them
LiveGroup == {"success", "live"}
FailureGroup == {"failed", "error", "cancelled", "build_failed"}

Last(q) == q[Len(q)]

\* the run is over: main() returned or raised
Ended == pc \in {"done", "crashed"}

\* some poll of this run saw a status of a terminal group
TerminalSeen ==
    \E i \in 1..Len(polls) : polls[i] \in LiveGroup \cup FailureGroup

\* the statuses of the deploys found, in order (polls without the
\* iterations that found no deploy)
Observed == SelectSeq(polls, LAMBDA x : x # "<nodeploy>")

\* the number of maximal runs of identical consecutive values of q
Runs(q) == Cardinality({i \in 1..Len(q) : i = 1 \/ q[i] # q[i - 1]})

\* C1: a run that returns ends with exactly one exit code among 0, 2, 3:
\* 0 only if the last fetched status was success or live, 2 only if it was
\* failed, error, cancelled or build_failed, 3 only if the loop condition
\* was found false and no poll had seen a terminal status; while the run
\* has not ended there is no exit code.
C1_ThreeOutcomes ==
    /\ ~Ended => exit_code = {}
    /\ pc = "done" =>
          /\ exit_code \in {{0}, {2}, {3}}
          /\ exit_code = {0} =>
                polls # <<>> /\ Last(polls) \in LiveGroup
                /\ last_status \in LiveGroup
          /\ exit_code = {2} =>
                polls # <<>> /\ Last(polls) \in FailureGroup
                /\ last_status \in FailureGroup
          /\ exit_code = {3} => ~(elapsed < timeout) /\ ~TerminalSeen

\* C1 witness: a run returned 2 after seeing an in-progress status first
C1_Witness ==
    /\ pc = "done" /\ exit_code = {2}
    /\ Len(polls) = 2 /\ polls[1] = "queued" /\ polls[2] = "build_failed"

\* C2: whenever the last status a poll returned is success or live, the
\* run, once over, has exited with code 0.
C2_LiveExitsZero ==
    (Ended /\ polls # <<>> /\ Last(polls) \in LiveGroup) => exit_code = {0}

\* C3: whenever the last poll result is a failure status, the run, once
\* over, has exited with code 2, also after earlier polls found no deploy.
C3_FailureExitsTwo ==
    (Ended /\ polls # <<>> /\ Last(polls) \in FailureGroup) =>
        exit_code = {2}

C5_OneLinePerRun ==
    /\ Len(log) = Runs(Observed)
    /\ (pc = "done"
        /\ polls = <<"queued", "queued", "build_in_progress", "live">>)
          => (Len(log) = 3 /\ exit_code = {0})

\* C6: a deploy-list fetch that yields no deploy leaves the run without an
\* exit code, sleeps once for at least 5 seconds and goes back to the loop
\* condition; and from the loop condition with time remaining the next
\* step is the deploy-list fetch.
C6_NoDeployRetries ==
    [][/\ (pc = "fetch" /\ polls' = Append(polls, "<nodeploy>")) =>
            /\ pc' = "loop"
            /\ exit_code' = {}
            /\ nSleeps' = nSleeps + 1
            /\ elapsed' >= elapsed + 5
            /\ nEvents' = nEvents
       /\ (pc = "loop" /\ elapsed < timeout) =>
            /\ pc' = "fetch"
            /\ nFetch' = nFetch
            /\ exit_code' = {}]_vars

\* C6 witness: after a poll that found no deploy the next fetch is due
C6_Witness ==
    pc = "fetch" /\ polls # <<>> /\ Last(polls) = "<nodeploy>"

\* C7: observing a status outside both groups (a missing status included)
\* gives no exit code and no events request, only one 5-second sleep and a
\* return to the loop condition.
C7_UnknownIsInProgress ==
    [][(pc = "fetch" /\ Len(polls') = Len(polls) + 1
        /\ Last(polls') \notin LiveGroup \cup FailureGroup \cup {"<nodeploy>"})
         => /\ pc' = "loop"
            /\ exit_code' = {}
            /\ nEvents' = nEvents
            /\ nSleeps' = nSleeps + 1
            /\ elapsed' >= elapsed + 5]_vars

\* C7 witness: a deploy without a status was observed and the loop goes on
C7_Witness ==
    pc = "fetch" /\ polls # <<>> /\ Last(polls) = NoneVal

\* C8: with timeout 0 the run never requests anything and never sleeps;
\* it can only be at the loop condition or have returned 3 at time 0.
C8_ZeroTimeoutNoCalls ==
    timeout = 0 =>
        /\ nFetch = 0 /\ nEvents = 0 /\ nSleeps = 0 /\ elapsed = 0
        /\ pc \in {"loop", "done"}
        /\ pc = "done" => exit_code = {3}

\* C8 witness: the run with timeout 0 returned 3
C8_Witness == timeout = 0 /\ pc = "done" /\ exit_code = {3}

\* C9: once the events request has been made the run has returned, with 0
\* after a live-success status and with 2 after a failure status,
\* whatever the events request did.
C9_EventsNeverChangeOutcome ==
    nEvents > 0 =>
        /\ pc = "done"
        /\ last_status \in LiveGroup => exit_code = {0}
        /\ last_status \in FailureGroup => exit_code = {2}

(***************************************************************************)
(* Properties of the smoke tests (checked under SmokeSpec).                *)
(***************************************************************************)
\* C10: exit 0 only if /health returned 200 and validate returned 2xx; a
\* validate response outside 2xx gives a non-zero exit; validate is sent
\* only after /health returned 200.
C10_SmokePassesOnly2xx ==
    /\ smoke_exit = {0} =>
          /\ health_code = {200}
          /\ validate_code # {} /\ validate_code \subseteq 200..299
    /\ (smoke_pc = "done" /\ validate_code # {}
        /\ validate_code \cap (200..299) = {}) =>
          (smoke_exit # {} /\ 0 \notin smoke_exit)
    /\ nValidate > 0 => health_code = {200}

(***************************************************************************)
(* Properties of patch-and-deploy (checked under PatchSpec).               *)
(***************************************************************************)
\* C11: the POST is sent only after the PATCH returned 200 or 202, and
\* the requests sent are PATCH, then at most one POST; a PATCH with
\* another status ends the run with exit 2 and no POST; a POST with a
\* status other than 200 or 201 ends it with exit 3; exit 0 only after
\* PATCH 200/202 followed by POST 200/201.
C11_PatchThenDeploy ==
    /\ patch_reqs \in {<<>>, <<"PATCH">>, <<"PATCH", "POST">>}
    /\ Len(patch_reqs) = 2 => patch_code \in {{200}, {202}}
    /\ (patch_code # {} /\ patch_code \cap {200, 202} = {}) =>
          (patch_pc = "done" /\ patch_exit = {2} /\ patch_reqs = <<"PATCH">>)
    /\ (deploy_code # {} /\ deploy_code \cap {200, 201} = {}) =>
          (patch_pc = "done" /\ patch_exit = {3})
    /\ patch_exit = {0} =>
          /\ patch_code \in {{200}, {202}}
          /\ deploy_code \in {{200}, {201}}
          /\ patch_reqs = <<"PATCH", "POST">>
    /\ (patch_pc = "done" /\ deploy_code \in {{200}, {201}}) =>
          patch_exit = {0}

\* C11 witness: PATCH answered 202, POST answered 201, exit 0
C11_Witness ==
    /\ patch_exit = {0} /\ patch_code = {202} /\ deploy_code = {201}
    /\ patch_reqs = <<"PATCH", "POST">>

(***************************************************************************)
(* Properties of the log fetcher (checked under FetchSpec).                *)
(***************************************************************************)
\* the requests for log candidates that returned 200, by position in
\* fb_reqs
Saved == {i \in 2..Len(fb_reqs) : fb_reqs[i].code = 200}

\* the number of events the events response held
EventCount == Len(fb_events.items) + fb_events.extra

\* C12: the requests are the events, then /builds/{id}/logs, then
\* /services/{id}/builds/{id}/logs; candidates are requested only with a
\* build id, the second only if the first did not return 200 and nothing
\* after a 200.  A run that exits 0 wrote the file exactly once: the body
\* of the first candidate that returned 200, else the first 50 events.
\* A run that did not exit 0 wrote nothing.
C12_CandidatesInOrder ==
    /\ \A i \in 1..Len(fb_reqs) :
          fb_reqs[i].url = <<"/services/{id}/events", "/builds/{id}/logs",
                             "/services/{id}/builds/{id}/logs">>[i]
    /\ Len(fb_reqs) <= 3
    /\ Len(fb_reqs) >= 2 => build_id \in {"bld-1", "bld-2"}
    /\ Len(fb_reqs) = 3 => fb_reqs[2].code \notin {0, 200}
    /\ (fb_pc = "done" /\ fb_reqs[1].code = 200) =>
          /\ fb_exit = {0}
          /\ Len(fb_file) = 1
          /\ Saved # {} =>
                /\ fb_file[1].kind = "logs"
                /\ \E i \in Saved :
                      /\ \A j \in Saved : i <= j
                      /\ fb_file[1].body = fb_reqs[i].body
          /\ Saved = {} =>
                /\ build_id \in {"bld-1", "bld-2"} => Len(fb_reqs) = 3
                /\ fb_file[1].kind = "events"
                /\ Len(fb_file[1].items) + fb_file[1].extra =
                      (IF EventCount > 50 THEN 50 ELSE EventCount)
                /\ fb_file[1].items =
                      SubSeq(fb_events.items, 1, Len(fb_file[1].items))
                /\ fb_file[1].extra > 0 =>
                      fb_file[1].items = fb_events.items
    /\ fb_exit # {0} => fb_file = <<>>

\* C12 witness: both candidates failed and more than 50 events were
\* received: the file holds the first 50
C12_Witness ==
    /\ fb_pc = "done" /\ Len(fb_reqs) = 3 /\ Saved = {}
    /\ EventCount > 50 /\ Len(fb_file) = 1
    /\ Len(fb_file[1].items) + fb_file[1].extra = 50

\* the positions of the events of q that are build_ended events of a
\* succeeded build
Matches(q) ==
    {i \in 1..Len(q) :
        q[i].wellformed /\ q[i].type = "build_ended"
        /\ q[i].buildStatus = "succeeded"}

\* C15: for the events a run of the log fetcher scanned, build_id is the
\* details.buildId of the match that comes first in list order (None when
\* that match carries none or nothing matches), whatever follows that
\* match; and the poller's scan of the same list prints that same id.
C15_FirstMatchWins ==
    LET q == fb_events.items IN
    IF Matches(q) = {}
    THEN build_id = NoneVal /\ ScanEvents(q, 1) \in {"<nothing>", "<raise>"}
    ELSE \E i \in Matches(q) :
            /\ \A j \in Matches(q) : i <= j
            /\ build_id = q[i].buildId
            /\ ScanEvents(q, 1) = q[i].buildId

\* C15 witness: the first match carries no build id, a later match does,
\* and the run ended with no build id
C15_Witness ==
    /\ fb_pc = "done" /\ build_id = NoneVal
    /\ Len(fb_events.items) = 2
    /\ Matches(fb_events.items) = {1, 2}
    /\ fb_events.items[1].buildId = NoneVal
    /\ fb_events.items[2].buildId = "bld-1"

(***************************************************************************)
(* Further properties of the deploy poller (checked under Spec, the last   *)
(* one under FairSpec).                                                    *)
(***************************************************************************)
\* C13 as stated: a run with timeout 0 that returned made exactly one
\* deploy-list fetch and never slept.
C13_ZeroTimeoutChecksOnce ==
    (timeout = 0 /\ pc = "done") => (nFetch = 1 /\ nSleeps = 0)

\* C13 amended: a run with timeout 0 that is over returned 3 without any
\* deploy-list fetch, without observing anything and without sleeping.
C13_ZeroTimeoutNeverChecks ==
    (timeout = 0 /\ Ended) =>
        /\ pc = "done" /\ exit_code = {3}
        /\ nFetch = 0 /\ polls = <<>> /\ log = <<>>
        /\ nSleeps = 0 /\ slept = 0

\* C13 witness: the run with timeout 0 is over and has fetched nothing
C13_Witness == timeout = 0 /\ Ended /\ nFetch = 0 /\ polls = <<>>

\* C14: as soon as a deploy status has been observed, a "Deploy status:"
\* line for the first observed status has been printed.
C14_FirstStatusLogged ==
    Observed # <<>> => (log # <<>> /\ log[1] = Observed[1])

\* C16: whenever the poller is about to evaluate the loop condition or to
\* fetch, it has slept exactly once per fetch made so far, and every sleep
\* asked for 5 seconds: the total slept is 5 times the number of fetches.
C16_ConstantBackoff ==
    /\ slept = 5 * nSleeps
    /\ pc \in {"loop", "fetch"} => nSleeps = nFetch
    /\ nSleeps <= nFetch

\* C16 witness: the third fetch is due after a poll without a deploy and a
\* poll with an in-progress status, 10 seconds slept
C16_Witness ==
    /\ pc = "fetch" /\ polls = <<"<nodeploy>", "queued">>
    /\ nSleeps = 2 /\ slept = 10

\* C17: at most one events request, and only after a terminal status was
\* observed; a terminal status is always the last poll result, and once
\* one is observed no step sleeps or fetches again; a run that returns
\* after one returns 0 or 2 according to it.
C17_FirstTerminalDecides ==
    [][/\ nEvents' <= 1
       /\ nEvents' > 0 => TerminalSeen'
       /\ \A i \in 1..Len(polls') :
             polls'[i] \in LiveGroup \cup FailureGroup => i = Len(polls')
       /\ TerminalSeen =>
             /\ nFetch' = nFetch /\ nSleeps' = nSleeps /\ polls' = polls
             /\ nEvents' = nEvents + 1
             /\ pc' = "done" =>
                   exit_code' = IF Last(polls) \in LiveGroup THEN {0} ELSE {2}]_vars

\* C17 witness: a run returned 2 after one events request, the terminal
\* status being the third poll result
C17_Witness ==
    /\ pc = "done" /\ exit_code = {2} /\ nEvents = 1
    /\ Len(polls) = 3 /\ polls[3] = "cancelled" /\ nSleeps = 2

\* C18: an iteration that finds no deploy leaves last_status and the
\* printed status lines unchanged; a status seen again after iterations
\* without a deploy prints no second line.
C18_NoDeployKeepsLastStatus ==
    [][/\ (Len(polls') = Len(polls) + 1 /\ Last(polls') = "<nodeploy>") =>
             (last_status' = last_status /\ log' = log)
       /\ (Len(polls') = Len(polls) + 1 /\ Observed # <<>>
           /\ Last(polls') = Last(Observed)) => log' = log]_vars

\* C18 witness: queued, no deploy, queued was observed with one line
C18_Witness ==
    polls = <<"queued", "<nodeploy>", "queued">> /\ log = <<"queued">>

\* C19: with a positive timeout T at most ceil(T / 5) deploy-list fetches
\* are made, and every run eventually ends.
C19_BoundedFetchesAndTermination ==
    /\ [](timeout > 0 => nFetch <= (timeout + 4) \div 5)
    /\ <>Ended

\* C19 witness: a run that timed out after ceil(T / 5) fetches, T > 5
C19_Witness ==
    /\ pc = "done" /\ exit_code = {3} /\ timeout > 5
    /\ nFetch = (timeout + 4) \div 5

====
